---- MODULE Spec2Model ----
(***************************************************************************)
(* Model of idb's HID commands (src/idb/cli/commands/hid.py):              *)
(*   - StreamTouchCommand: the stdin -> HIDEvent stream bridge             *)
(*     (run_with_client, read_touch_events_from_stdin,                     *)
(*      convert_touch_event_to_hid);                                       *)
(*   - the swipe interpolation the SwipeCommand hands to the client.       *)
(* and of VideoStreamCommand._build_stream_config                          *)
(* (src/idb/cli/commands/video.py).                                        *)
(***************************************************************************)
EXTENDS Integers, Sequences, FiniteSets, TLC

\* ------------------------------------------------------------------ bounds

\* The feed hands out at most MaxLines lines before it ends.
MaxLines == 3

\* Swipe coordinates range over 0..MaxCoord (and 100); deltas over -1..MaxDelta
\* (and 25).
MaxCoord == 3
MaxDelta == 3

\* ------------------------------------------------------- Python exceptions

\* Exception classes that derive from Exception (caught by `except Exception`).
ExceptionClasses ==
    {"OSError", "ValueError", "TypeError", "JSONDecodeError", "RecursionError",
     "RuntimeError"}

\* BaseException classes that do not derive from Exception.
BaseOnlyClasses == {"KeyboardInterrupt", "GeneratorExit", "CancelledError"}

IsException(e) == e \in ExceptionClasses

Ok(v) == [ok |-> TRUE, val |-> v]
Raise(e) == [ok |-> FALSE, exc |-> e]

\* --------------------------------------------------------------- JSON data

JInt(n) == [k |-> "int", n |-> n]
JStr(s) == [k |-> "str", s |-> s]
JBool(b) == [k |-> "bool", b |-> b]
JNull == [k |-> "null"]
JList(l) == [k |-> "list", l |-> l]
JObj(o) == [k |-> "obj", o |-> o]

\* A Python float, kept in tenths: 1.5 is PyFloatValue(15).
PyFloatValue(tenths) == [k |-> "float", tenths |-> tenths]

\* The strings of the model that float() parses, with their values in tenths.
NumericStrings == [s \in {"3", "1.5"} |-> IF s = "3" THEN 30 ELSE 15]

\* float(v) of line 226.
PyFloat(v) ==
    CASE v.k = "int" -> Ok(PyFloatValue(10 * v.n))
      [] v.k = "bool" -> Ok(PyFloatValue(IF v.b THEN 10 ELSE 0))
      [] v.k = "float" -> Ok(v)
      [] v.k = "str" -> IF v.s \in DOMAIN NumericStrings
                           THEN Ok(PyFloatValue(NumericStrings[v.s]))
                           ELSE Raise("ValueError")
      [] OTHER -> Raise("TypeError")

\* ------------------------------------------------------------ HID events

Point(x, y) == [x |-> x, y |-> y]
HIDTouch(point) == [kind |-> "Touch", point |-> point]
HIDPress(action, direction) ==
    [kind |-> "Press", action |-> action, direction |-> direction]

\* ------------------------------------------------- convert_touch_event_to_hid

RequiredKeys == {"type", "x", "y"}

direction_mapSwapped ==
    [touch_start |-> "DOWN", touch_move |-> "UP", touch_end |-> "UP"]

direction_map ==
    [touch_start |-> "DOWN", touch_move |-> "DOWN", touch_end |-> "UP"]

\* `key in event` of line 222: a key of a dict, an element of a list; a
\* number, a bool or None is not iterable.  (A top-level string, where `in`
\* tests for a substring, is not among the model's lines.)
KeyIn(key, event) ==
    CASE event.k = "obj" -> Ok(key \in DOMAIN event.o)
      [] event.k = "list" -> Ok(\E i \in 1..Len(event.l) : event.l[i] = JStr(key))
      [] OTHER -> Raise("TypeError")

convert_touch_event_to_hid(event) ==
    IF ~KeyIn("type", event).ok THEN Raise("TypeError")
    ELSE IF ~(\A key \in RequiredKeys : KeyIn(key, event).val)
    THEN Raise("ValueError")
    ELSE IF event.k # "obj" THEN Raise("TypeError")
    ELSE LET fx == PyFloat(event.o.x)
             fy == PyFloat(event.o.y)
             event_type == event.o.type
         IN  IF ~fx.ok THEN Raise(fx.exc)
             ELSE IF ~fy.ok THEN Raise(fy.exc)
             ELSE IF event_type.k # "str" \/ event_type.s \notin DOMAIN direction_map
             THEN Raise("ValueError")
             ELSE Ok(HIDPress(HIDTouch(Point(fx.val, fy.val)),
                              direction_map[event_type.s]))

\* ------------------------------------------------------------ feed lines

\* A line as sys.stdin.readline returns it: whether it ends in a newline, and
\* its text without surrounding whitespace.  End of input is the empty string.
Line(nl, body) == [nl |-> nl, body |-> body]
EmptyText == [t |-> "empty"]
GarbageText == [t |-> "garbage"]      \* not JSON: json.loads raises JSONDecodeError
DeepText == [t |-> "deep"]            \* '[' * 100000: json.loads raises RecursionError
JsonText(v) == [t |-> "json", val |-> v]

EofLine == Line(FALSE, EmptyText)
BlankLine == Line(TRUE, EmptyText)

TouchLine(type, x, y) == Line(TRUE, JsonText(JObj([type |-> JStr(type), x |-> x, y |-> y])))

FeedLines ==
    { BlankLine,
      Line(TRUE, GarbageText),
      Line(TRUE, DeepText),
      Line(TRUE, JsonText(JInt(5))),
      Line(TRUE, JsonText(JList(<<JStr("type"), JStr("x"), JStr("y")>>))),
      TouchLine("touch_start", JInt(1), JInt(2)),
      TouchLine("touch_move", JStr("3"), JInt(4)),
      TouchLine("touch_end", JInt(5), JBool(TRUE)),
      TouchLine("swipe", JInt(1), JInt(2)),
      Line(TRUE, JsonText(JObj([type |-> JStr("touch_start"), x |-> JInt(1)]))),
      TouchLine("touch_move", JNull, JInt(1)) }

\* ------------------------------------------------ read_touch_events_from_stdin

Info(msg) == [level |-> "info", msg |-> msg]
Warning(msg) == [level |-> "warning", msg |-> msg]
Error(msg) == [level |-> "error", msg |-> msg]

IsEofReadNever(line) == FALSE

\* `not line` of line 192: readline returned the empty string.
IsEofRead(line) == line.nl = FALSE /\ line.body.t = "empty"

\* line.strip() of line 196.
Strip(line) == line.body

\* json.loads of line 202.
JsonLoads(text) ==
    CASE text.t = "json" -> Ok(text.val)
      [] text.t = "deep" -> Raise("RecursionError")
      [] OTHER -> Raise("JSONDecodeError")

\* except json.JSONDecodeError, line 203.
CaughtAsInvalidJson(e) == e = "JSONDecodeError"

\* except Exception around the conversion and the yield, line 211.
CaughtAsConvertFailure(e) == IsException(e)

CaughtAsReadErrorNone(e) == FALSE

\* except Exception around the loop body, line 215.
CaughtAsReadError(e) == IsException(e)

Continue(logs) == [next |-> "read", logs |-> logs, ev |-> <<>>, exc |-> "none"]
Break(logs) == [next |-> "closed", logs |-> logs, ev |-> <<>>, exc |-> "none"]
Yield(ev) == [next |-> "yield", logs |-> <<>>, ev |-> <<ev>>, exc |-> "none"]
Propagate(e) == [next |-> "raise", logs |-> <<>>, ev |-> <<>>, exc |-> e]

\* An exception raised inside the outer try (lines 189-217).
OuterHandler(e) ==
    IF CaughtAsReadError(e) THEN Break(<<Error("Error reading stdin")>>)
    ELSE Propagate(e)

\* An exception raised inside the inner try of lines 208-213.
ConvertHandler(e) ==
    IF CaughtAsConvertFailure(e)
    THEN Continue(<<Warning("Failed to convert event")>>)
    ELSE OuterHandler(e)

\* One turn of the loop of lines 188-217, from the result of the awaited read
\* to the next suspension (a new read, the yield) or the end of the generator.
LoopBody(res) ==
    IF ~res.ok THEN OuterHandler(res.exc)
    ELSE IF IsEofRead(res.val)
    THEN Break(<<Info("Received EOF, ending stream")>>)
    ELSE LET text == Strip(res.val) IN
         IF text.t = "empty" THEN Continue(<<>>)
         ELSE LET parsed == JsonLoads(text) IN
              IF ~parsed.ok
              THEN IF CaughtAsInvalidJson(parsed.exc)
                   THEN Continue(<<Warning("Invalid JSON")>>)
                   ELSE OuterHandler(parsed.exc)
              ELSE LET hid_event == convert_touch_event_to_hid(parsed.val) IN
                   IF hid_event.ok THEN Yield(hid_event.val)
                   ELSE ConvertHandler(hid_event.exc)

\* An exception thrown into the generator while it is suspended at the yield
\* of line 210 (aclose throws GeneratorExit there).
ThrownAtYield(e) == ConvertHandler(e)

SubmitsReadEagerly(next) == next \in {"read", "yield"}

\* Whether the generator, on its way to suspension point `next`, has handed a
\* readline to the executor (line 191): only when it loops back to the await.
SubmitsRead(next) == next = "read"

HandoffLifo(q, ev) == <<ev>> \o q

\* yield hid_event, line 210: the event joins the sequence handed to the consumer.
Handoff(q, ev) == Append(q, ev)

\* --------------------------------------------------------- run_with_client

RunWithClientSwallow(e) ==
    CASE e = "none" -> [state |-> "returned", logs |-> <<>>, exc |-> "none"]
      [] e = "KeyboardInterrupt" ->
            [state |-> "returned", logs |-> <<Info("Stream interrupted by user")>>,
             exc |-> "none"]
      [] IsException(e) ->
            [state |-> "returned", logs |-> <<Error("Streaming error")>>, exc |-> "none"]
      [] OTHER -> [state |-> "raised", logs |-> <<>>, exc |-> e]

\* The try/except of lines 174-180, from how `await client.hid(...)` ended.
RunWithClientExit(e) ==
    CASE e = "none" -> [state |-> "returned", logs |-> <<>>, exc |-> "none"]
      [] e = "KeyboardInterrupt" ->
            [state |-> "returned", logs |-> <<Info("Stream interrupted by user")>>,
             exc |-> "none"]
      [] IsException(e) ->
            [state |-> "raised", logs |-> <<Error("Streaming error")>>, exc |-> e]
      [] OTHER -> [state |-> "raised", logs |-> <<>>, exc |-> e]

\* ------------------------------------------------------------------- state

VARIABLES
    gen,            \* the generator: "created", "reading", "yielded", "closed"
    reads,          \* readline calls outstanding on the executor's worker
    pending,        \* results of finished reads the generator has not resumed on
    consumed,       \* the lines the generator has received, in order
    emitted,        \* the events the generator has yielded, in order
    inflight,       \* the yielded event the consumer holds and has not sent
    delivered,      \* the events client.hid has sent to the transport
    log,            \* self.logger's records, in order
    hid,            \* client.hid: "notcalled", "waiting", "sending", "returned", "raised"
    hidCalls,       \* how many times client.hid was invoked
    rwc,            \* run_with_client: "ready", "awaiting", "returned", "raised",
                    \* "abandoned" (suspended at its await, never resumed)
    callerExc,      \* the exception run_with_client raised to its caller
    closedBy,       \* how the generator ended: "open", "break", "raise", "exit"
    lastRead,       \* what the generator last resumed on: "none", "line", "eof", "fault"
    interrupted,    \* where a KeyboardInterrupt struck: "none", "read", "parse", "delivery"
    deliveryFault,  \* the exception the transport failed with, or "none"
    swipe,          \* the swipe being interpolated
    video           \* video-stream: the command line, the parsed args, the config

streamVars ==
    <<gen, reads, pending, consumed, emitted, inflight, delivered, log, hid,
      hidCalls, rwc, callerExc, closedBy, lastRead, interrupted, deliveryFault>>

vars == <<streamVars, swipe, video>>

\* The exceptions the transport may fail with.
DeliveryFaults == {"RuntimeError", "CancelledError"}

\* The exceptions sys.stdin.readline may fail with.
ReadFaults == {"OSError"}

SwipeIdle == [pc |-> "idle"]

VideoIdle == [pc |-> "idle"]

StreamInit ==
    /\ gen = "created"
    /\ reads = 0
    /\ pending = <<>>
    /\ consumed = <<>>
    /\ emitted = <<>>
    /\ inflight = <<>>
    /\ delivered = <<>>
    /\ log = <<>>
    /\ hid = "notcalled"
    /\ hidCalls = 0
    /\ rwc = "ready"
    /\ callerExc = "none"
    /\ closedBy = "open"
    /\ lastRead = "none"
    /\ interrupted = "none"
    /\ deliveryFault = "none"

Init == StreamInit /\ swipe = SwipeIdle /\ video = VideoIdle

ReadCount(next) == IF SubmitsRead(next) THEN 1 ELSE 0

\* client.hid ends with exception e ("none": it returned) and run_with_client's
\* handlers run.
HidEnds(e, logs) ==
    LET exit == RunWithClientExit(e) IN
    /\ hid' = IF e = "none" THEN "returned" ELSE "raised"
    /\ rwc' = exit.state
    /\ callerExc' = exit.exc
    /\ log' = log \o logs \o exit.logs

\* The generator reaches its next suspension point, or ends, with outcome o.
GenMoves(o) ==
    /\ reads' = reads + ReadCount(o.next)
    /\ CASE o.next = "read" ->
              /\ gen' = "reading"
              /\ log' = log \o o.logs
              /\ UNCHANGED <<emitted, inflight, hid, rwc, callerExc, closedBy>>
         [] o.next = "yield" ->
              /\ gen' = "yielded"
              /\ emitted' = Handoff(emitted, o.ev[1])
              /\ inflight' = Append(inflight, o.ev[1])
              /\ hid' = "sending"
              /\ log' = log \o o.logs
              /\ UNCHANGED <<rwc, callerExc, closedBy>>
         [] o.next = "closed" ->
              /\ gen' = "closed"
              /\ closedBy' = "break"
              /\ HidEnds("none", o.logs)
              /\ UNCHANGED <<emitted, inflight>>
         [] o.next = "raise" ->
              /\ gen' = "closed"
              /\ closedBy' = "raise"
              /\ HidEnds(o.exc, o.logs)
              /\ UNCHANGED <<emitted, inflight>>

\* run_with_client awaits client.hid(self.read_touch_events_from_stdin()); the
\* consumer asks for the first event and the generator runs to its first await.
Start ==
    /\ rwc = "ready"
    /\ rwc' = "awaiting"
    /\ hidCalls' = hidCalls + 1
    /\ hid' = "waiting"
    /\ gen' = "reading"
    /\ reads' = reads + ReadCount("read")
    /\ log' = Append(log, Info("Starting touch event stream from stdin..."))
    /\ UNCHANGED <<pending, consumed, emitted, inflight, delivered, callerExc,
                   closedBy, lastRead, interrupted, deliveryFault, swipe, video>>

\* The worker's sys.stdin.readline returns a line, or the empty string at end
\* of input.
WorkerReadline ==
    /\ reads > 0
    /\ \E line \in FeedLines \cup {EofLine} :
          /\ line # EofLine => Len(consumed) + Len(pending) < MaxLines
          /\ pending' = Append(pending, Ok(line))
    /\ reads' = reads - 1
    /\ UNCHANGED <<gen, consumed, emitted, inflight, delivered, log, hid, hidCalls,
                   rwc, callerExc, closedBy, lastRead, interrupted, deliveryFault, swipe, video>>

\* The worker's sys.stdin.readline raises.
WorkerRaises ==
    /\ reads > 0
    /\ \E e \in ReadFaults : pending' = Append(pending, Raise(e))
    /\ reads' = reads - 1
    /\ UNCHANGED <<gen, consumed, emitted, inflight, delivered, log, hid, hidCalls,
                   rwc, callerExc, closedBy, lastRead, interrupted, deliveryFault, swipe, video>>

\* The generator resumes from the await of line 191 with the read's result and
\* runs the loop body.
GenResume ==
    /\ rwc = "awaiting"
    /\ gen = "reading"
    /\ pending # <<>>
    /\ LET res == Head(pending)
           isLine == res.ok /\ res.val # EofLine
       IN  /\ consumed' = IF isLine THEN Append(consumed, res.val) ELSE consumed
           /\ lastRead' = IF ~res.ok THEN "fault" ELSE IF isLine THEN "line" ELSE "eof"
           /\ GenMoves(LoopBody(res))
    /\ pending' = Tail(pending)
    /\ UNCHANGED <<delivered, hidCalls, interrupted, deliveryFault, swipe, video>>

\* The transport takes the event; the consumer asks for the next one and the
\* generator resumes after the yield, loops, and awaits the next read.
HidSendOk ==
    /\ rwc = "awaiting"
    /\ hid = "sending"
    /\ gen = "yielded"
    /\ inflight # <<>>
    /\ delivered' = Append(delivered, Head(inflight))
    /\ inflight' = Tail(inflight)
    /\ hid' = "waiting"
    /\ gen' = "reading"
    /\ reads' = reads + ReadCount("read")
    /\ UNCHANGED <<pending, consumed, emitted, log, hidCalls, rwc, callerExc,
                   closedBy, lastRead, interrupted, deliveryFault, swipe, video>>

\* The transport fails to send the event: client.hid raises.
HidSendFails ==
    /\ rwc = "awaiting"
    /\ hid = "sending"
    /\ \E e \in DeliveryFaults :
          /\ deliveryFault' = e
          /\ HidEnds(e, <<>>)
    /\ inflight' = <<>>
    /\ UNCHANGED <<gen, reads, pending, consumed, emitted, delivered, hidCalls,
                   closedBy, lastRead, interrupted, swipe, video>>

\* An operator interrupt (SIGINT) arrives while the generator is suspended at
\* the await of line 191 and the main thread is in the event loop.  Either the
\* loop's runner cancels the task, and CancelledError is thrown at the await,
\* or KeyboardInterrupt is raised in the event loop itself and leaves it: the
\* coroutine is never resumed.  The worker's blocking readline is not
\* cancelled in either case.
InterruptDuringRead ==
    /\ rwc = "awaiting"
    /\ gen = "reading"
    /\ reads > 0
    /\ pending = <<>>
    /\ interrupted' = "read"
    /\ \/ GenMoves(LoopBody(Raise("CancelledError")))
       \/ /\ rwc' = "abandoned"
          /\ UNCHANGED <<gen, reads, emitted, inflight, hid, callerExc, closedBy, log>>
    /\ UNCHANGED <<pending, consumed, delivered, hidCalls, lastRead, deliveryFault,
                   swipe, video>>

\* An operator interrupt arrives while the main thread runs the generator's
\* loop body on a line it has read (lines 196-209): KeyboardInterrupt is
\* raised there.
InterruptDuringParse ==
    /\ rwc = "awaiting"
    /\ gen = "reading"
    /\ pending # <<>>
    /\ Head(pending).ok
    /\ Head(pending).val # EofLine
    /\ interrupted' = "parse"
    /\ consumed' = Append(consumed, Head(pending).val)
    /\ pending' = Tail(pending)
    /\ lastRead' = "line"
    /\ GenMoves(ConvertHandler("KeyboardInterrupt"))
    /\ UNCHANGED <<delivered, hidCalls, deliveryFault, swipe, video>>

\* An operator interrupt arrives while client.hid is sending an event:
\* KeyboardInterrupt is raised in client.hid's running code, or the task is
\* cancelled at client.hid's await, or KeyboardInterrupt leaves the event loop
\* and the coroutine is never resumed.
InterruptDuringDelivery ==
    /\ rwc = "awaiting"
    /\ hid = "sending"
    /\ interrupted' = "delivery"
    /\ \/ /\ \E e \in {"KeyboardInterrupt", "CancelledError"} : HidEnds(e, <<>>)
          /\ inflight' = <<>>
       \/ /\ rwc' = "abandoned"
          /\ UNCHANGED <<inflight, hid, callerExc, log>>
    /\ UNCHANGED <<gen, reads, pending, consumed, emitted, delivered, hidCalls,
                   closedBy, lastRead, deliveryFault, swipe, video>>

\* The abandoned generator is finalized: aclose() throws GeneratorExit where
\* it is suspended, the yield of line 210 or the await of line 191.
Finalize ==
    /\ \/ gen = "yielded" /\ hid = "raised"
       \/ gen \in {"reading", "yielded"} /\ rwc = "abandoned"
    /\ LET o == IF gen = "yielded" THEN ThrownAtYield("GeneratorExit")
                ELSE OuterHandler("GeneratorExit")
       IN  /\ gen' = IF o.next = "read" THEN "reading" ELSE "closed"
           /\ closedBy' = IF o.next = "read" THEN closedBy ELSE "exit"
           /\ reads' = reads + ReadCount(o.next)
           /\ log' = log \o o.logs
    /\ UNCHANGED <<pending, consumed, emitted, inflight, delivered, hid, hidCalls,
                   rwc, callerExc, lastRead, interrupted, deliveryFault, swipe, video>>

StreamNext ==
    \/ Start
    \/ WorkerReadline
    \/ WorkerRaises
    \/ GenResume
    \/ HidSendOk
    \/ HidSendFails
    \/ InterruptDuringRead
    \/ InterruptDuringParse
    \/ InterruptDuringDelivery
    \/ Finalize

Next == StreamNext

Spec == Init /\ [][Next]_vars

\* ------------------------------------------------------- claim vocabulary

TouchTypes == {"touch_start", "touch_move", "touch_end"}

\* A value float() accepts.
Coercible(v) ==
    \/ v.k \in {"int", "bool", "float"}
    \/ v.k = "str" /\ v.s \in DOMAIN NumericStrings

IsJsonObject(line) == line.body.t = "json" /\ line.body.val.k = "obj"

\* The line is an object carrying type, x and y with a recognized type.
IsTouchObject(line) ==
    /\ IsJsonObject(line)
    /\ RequiredKeys \subseteq DOMAIN line.body.val.o
    /\ line.body.val.o.type.k = "str"
    /\ line.body.val.o.type.s \in TouchTypes

\* Structurally invalid: not valid JSON, a JSON value of another top-level
\* shape, missing any of type/x/y, or an unrecognized type.
StructurallyInvalid(line) == line.body.t # "empty" /\ ~IsTouchObject(line)

WellFormed(line) ==
    /\ IsTouchObject(line)
    /\ Coercible(line.body.val.o.x)
    /\ Coercible(line.body.val.o.y)

RECURSIVE SelectWellFormed(_)
SelectWellFormed(lines) ==
    IF lines = <<>> THEN <<>>
    ELSE (IF WellFormed(Head(lines)) THEN <<Head(lines)>> ELSE <<>>)
         \o SelectWellFormed(Tail(lines))

RECURSIVE CountLevel(_, _)
CountLevel(records, level) ==
    IF records = <<>> THEN 0
    ELSE (IF Head(records).level = level THEN 1 ELSE 0) + CountLevel(Tail(records), level)

RECURSIVE CountMsg(_, _)
CountMsg(records, msg) ==
    IF records = <<>> THEN 0
    ELSE (IF Head(records).msg = msg THEN 1 ELSE 0) + CountMsg(Tail(records), msg)

IsPrefix(a, b) == Len(a) <= Len(b) /\ SubSeq(b, 1, Len(a)) = a

\* The lines whose loop body ran to its end (an interrupt cuts the last short).
Processed ==
    IF interrupted = "parse" THEN SubSeq(consumed, 1, Len(consumed) - 1) ELSE consumed

Reading == gen \in {"reading", "yielded"}
Closed == gen = "closed"

\* ------------------------------------------------------------------ claims

\* The step in which the generator runs the loop body on a line, undisturbed.
LineStep ==
    /\ Len(consumed') = Len(consumed) + 1
    /\ interrupted' = "none"

LineOfStep == consumed'[Len(consumed')]

LogOfStep == SubSeq(log', Len(log) + 1, Len(log'))

C1_InvalidLineStep ==
    (LineStep /\ StructurallyInvalid(LineOfStep)) =>
        /\ emitted' = emitted
        /\ gen' = "reading"
        /\ reads' = 1

C1_FollowingLineStep ==
    (LineStep /\ WellFormed(LineOfStep)) =>
        /\ Len(emitted') = Len(emitted) + 1
        /\ gen' = "yielded"

\* C1: every structurally invalid line (not valid JSON, another top-level
\* shape, a missing type/x/y, an unrecognized type) contributes zero events and
\* leaves the bridge Reading with the next read under way, and every
\* well-formed line the bridge goes on to read is emitted.
C1_PerItemFaultIsolation == [][C1_InvalidLineStep /\ C1_FollowingLineStep]_vars

\* C2: the events handed to the consumer are the conversions of the
\* well-formed lines read, in the order read, each once; the transport has
\* received a prefix of them that lags by at most the one event in flight, and
\* no line is being read while an event is undelivered.
C2_Ordering ==
    /\ Len(emitted) = Len(SelectWellFormed(Processed))
    /\ \A k \in 1..Len(emitted) :
          emitted[k] =
              convert_touch_event_to_hid(SelectWellFormed(Processed)[k].body.val).val
    /\ IsPrefix(delivered, emitted)
    /\ Len(emitted) - Len(delivered) <= 1
    /\ (reads > 0 \/ pending # <<>>) => delivered = emitted

C2_Witness ==
    /\ Len(delivered) = 2
    /\ Len(consumed) = 3
    /\ delivered[1] # delivered[2]
    /\ StructurallyInvalid(consumed[2])

\* C3 as stated: every object carrying type, x and y with a recognized type is
\* converted to exactly one Press over a Touch, whatever its x and y.
C3_EveryTouchObjectPressed ==
    \A i \in 1..Len(Processed) :
        IsTouchObject(Processed[i]) =>
            LET r == convert_touch_event_to_hid(Processed[i].body.val)
            IN  r.ok /\ r.val.kind = "Press" /\ r.val.action.kind = "Touch"

\* C3, amended: every object carrying type, x and y with a recognized type and
\* with x and y that float() accepts is converted to exactly one Press over a Touch at
\* Point(float(x), float(y)), DOWN for touch_start and touch_move, UP for
\* touch_end; no emitted event is anything but a Press (never a Delay).
C3_PerLineMapping ==
    /\ \A i \in 1..Len(Processed) :
          WellFormed(Processed[i]) =>
              LET o == Processed[i].body.val.o
                  r == convert_touch_event_to_hid(Processed[i].body.val)
              IN  /\ r.ok
                  /\ r.val = [kind |-> "Press",
                              action |-> [kind |-> "Touch",
                                          point |-> [x |-> PyFloat(o.x).val,
                                                     y |-> PyFloat(o.y).val]],
                              direction |-> IF o.type.s = "touch_end"
                                            THEN "UP" ELSE "DOWN"]
                  /\ r.val \in {emitted[k] : k \in 1..Len(emitted)}
    /\ \A k \in 1..Len(emitted) :
          /\ emitted[k].kind = "Press"
          /\ emitted[k].action.kind = "Touch"
          /\ emitted[k].direction \in {"DOWN", "UP"}

C3_Witness ==
    /\ Len(emitted) = 3
    /\ emitted[1] = HIDPress(HIDTouch(Point(PyFloatValue(10), PyFloatValue(20))), "DOWN")
    /\ emitted[2] = HIDPress(HIDTouch(Point(PyFloatValue(30), PyFloatValue(40))), "DOWN")
    /\ emitted[3] = HIDPress(HIDTouch(Point(PyFloatValue(50), PyFloatValue(10))), "UP")

\* C4: on end of input the bridge closes without an error diagnostic and
\* without raising to the consumer; a closed bridge stays closed, emits
\* nothing more and, after end of input, reads nothing more.
C4_EofState ==
    lastRead = "eof" =>
        /\ Closed
        /\ closedBy = "break"
        /\ CountLevel(log, "error") = 0
        /\ hid = "returned"
        /\ rwc = "returned"
        /\ callerExc = "none"
        /\ reads = 0
        /\ pending = <<>>

C4_ClosedStep ==
    Closed =>
        /\ gen' = "closed"
        /\ emitted' = emitted
        /\ consumed' = consumed
        /\ lastRead = "eof" => reads' = 0 /\ pending' = <<>>

\* C4: end of input closes the bridge cleanly (C4_EofState) and for good
\* (C4_ClosedStep).
C4_EofClosesForGood == []C4_EofState /\ [][C4_ClosedStep]_vars

C4_Witness == lastRead = "eof" /\ Closed /\ Len(delivered) >= 1

\* C5: when the read raises, the bridge records exactly one error diagnostic,
\* closes without another read, and ends the sequence normally (client.hid and
\* run_with_client return, nothing is raised); what was emitted is delivered.
C5_ReadFaultTerminal ==
    lastRead = "fault" =>
        /\ Closed
        /\ closedBy = "break"
        /\ reads = 0
        /\ pending = <<>>
        /\ CountLevel(log, "error") = 1
        /\ CountMsg(log, "Error reading stdin") = 1
        /\ hid = "returned"
        /\ rwc = "returned"
        /\ callerExc = "none"
        /\ delivered = emitted

C5_Witness == lastRead = "fault" /\ Closed /\ Len(delivered) >= 1

C6_LineStep ==
    LineStep =>
        \/ /\ Len(emitted') = Len(emitted) + 1
           /\ LogOfStep = <<>>
        \/ /\ emitted' = emitted
           /\ Len(LogOfStep) = 1
           /\ LogOfStep[1].level = "warning"
           /\ Reading'

\* C6: every line read leaves exactly one event or exactly one warning
\* diagnostic; none is dropped silently, and none is escalated to an
\* error-level diagnostic or ends the stream.
C6_EveryLineAccounted == [][C6_LineStep]_vars

\* C7: at most one read is outstanding, at most one read result awaits the
\* generator, at most one event awaits the consumer; while an event is in
\* flight nothing is being read, and the bridge reads only for a consumer that
\* has asked for the next event.
C7_SingleSlotHandoff ==
    /\ reads + Len(pending) <= 1
    /\ Len(inflight) <= 1
    /\ inflight # <<>> => reads = 0 /\ pending = <<>> /\ gen \in {"yielded", "closed"}
    /\ (gen = "reading" /\ (reads > 0 \/ pending # <<>>)) =>
          hid = "waiting" /\ delivered = emitted

C7_Witness ==
    /\ Len(inflight) = 1
    /\ Len(delivered) >= 1
    /\ reads = 0

\* C8: after an operator interrupt during a read, a parse or a delivery,
\* run_with_client has returned normally with one "Stream interrupted by user"
\* informational record and no error record, nothing reached the caller, and
\* the stream reaches Closed.
C8_InterruptState ==
    interrupted # "none" =>
        /\ rwc = "returned"
        /\ callerExc = "none"
        /\ CountMsg(log, "Stream interrupted by user") = 1
        /\ CountLevel(log, "error") = 0

\* C8: an operator interrupt is a normal termination (C8_InterruptState) and
\* the stream eventually reaches Closed.
C8_CancellationIsNormal ==
    /\ []C8_InterruptState
    /\ (interrupted # "none") ~> Closed

\* C9: when client.hid fails with an exception other than KeyboardInterrupt,
\* that exception reaches run_with_client's caller, client.hid was invoked
\* once, and the bridge emits nothing after the failed event.
C9_FaultState ==
    deliveryFault # "none" =>
        /\ rwc = "raised"
        /\ callerExc = deliveryFault
        /\ hid = "raised"
        /\ hidCalls = 1
        /\ gen \in {"yielded", "closed"}
        /\ reads = 0
        /\ Len(emitted) = Len(delivered) + 1

C9_FaultStep ==
    deliveryFault # "none" =>
        /\ emitted' = emitted
        /\ delivered' = delivered
        /\ hidCalls' = hidCalls
        /\ callerExc' = callerExc
        /\ log' = log
        /\ gen' # "reading"

\* C9: a delivery fault reaches the caller unchanged (C9_FaultState) and
\* nothing is retried or emitted after it (C9_FaultStep).
C9_DeliveryFaultPropagates == []C9_FaultState /\ [][C9_FaultStep]_vars

C9_Witness ==
    /\ deliveryFault = "RuntimeError"
    /\ Closed
    /\ Len(delivered) >= 1
    /\ CountMsg(log, "Streaming error") = 1

\* The same behaviours, with the finalization of an abandoned generator
\* (the event loop's asynchronous-generator hooks) eventually run.
FairSpec == Spec /\ WF_vars(Finalize)

\* ------------------------------------------------------ swipe interpolation

Abs(n) == IF n < 0 THEN -n ELSE n

\* Squared Euclidean distance between start and end.
Dist2(start, end) ==
    (end[1] - start[1]) * (end[1] - start[1]) + (end[2] - start[2]) * (end[2] - start[2])

\* d <= delta, for delta > 0, without taking the root.
DistAtMost(start, end, delta) == Dist2(start, end) <= delta * delta

\* floor(d / delta) for delta > 0: the largest n with n * delta <= d.
StepCount(start, end, delta) ==
    CHOOSE n \in 0..(Abs(end[1] - start[1]) + Abs(end[2] - start[2])) :
        /\ n * delta * n * delta <= Dist2(start, end)
        /\ (n + 1) * delta * (n + 1) * delta > Dist2(start, end)

\* The integer d with d * d = d2, or 0 when the distance is irrational.
ExactRoot(d2) ==
    IF \E r \in 0..d2 : r * r = d2 THEN CHOOSE r \in 0..d2 : r * r = d2 ELSE 0

\* The i-th sample, at t_i = (i * delta) / d: start + t_i * (end - start).  It
\* is kept as the numerator i * delta of t_i over d, and, when d is an integer,
\* as its coordinates times d.
SamplePoint(start, end, delta, i) ==
    LET d == ExactRoot(Dist2(start, end)) IN
    [num |-> i * delta,
     d |-> d,
     xd |-> IF d = 0 THEN 0 ELSE start[1] * d + i * delta * (end[1] - start[1]),
     yd |-> IF d = 0 THEN 0 ELSE start[2] * d + i * delta * (end[2] - start[2])]

\* The interpolated points between start and end at spacing delta.
InterpolatedPoints(start, end, delta) ==
    IF delta <= 0 \/ DistAtMost(start, end, delta) THEN <<>>
    ELSE [i \in 1..StepCount(start, end, delta) |-> SamplePoint(start, end, delta, i)]

Coords == (0..MaxCoord) \cup {100}
Deltas == (-1..MaxDelta) \cup {25}

SwipeRequests ==
    {[pc |-> "ready", start |-> <<sx, sy>>, end |-> <<ex, ey>>, delta |-> dl] :
        sx \in Coords, sy \in {0, 1}, ex \in Coords, ey \in {0, 1, 4}, dl \in Deltas}

SwipeInit == StreamInit /\ swipe \in SwipeRequests /\ video = VideoIdle

\* The swipe is compiled: the interpolated points are produced.
Interpolate ==
    /\ swipe.pc = "ready"
    /\ swipe' = [pc |-> "done", start |-> swipe.start, end |-> swipe.end,
                 delta |-> swipe.delta,
                 points |-> InterpolatedPoints(swipe.start, swipe.end, swipe.delta)]
    /\ UNCHANGED <<streamVars, video>>

SwipeNext == Interpolate

SwipeSpec == SwipeInit /\ [][SwipeNext]_vars

\* The sample lies strictly between start and end: 0 < t < 1.
StrictlyInterior(p, d2) == 0 < p.num /\ p.num * p.num < d2

\* C10: for delta > 0 and d > delta every interpolated point lies strictly
\* between start and end, the points come in strictly increasing t, and
\* (0,0) -> (100,0) at delta 25 gives exactly (25,0), (50,0), (75,0); for
\* delta <= 0 or d <= delta there are none.
C10_InteriorPointsOnly ==
    swipe.pc = "done" =>
        LET d2 == Dist2(swipe.start, swipe.end)
            pts == swipe.points
        IN  IF swipe.delta <= 0 \/ d2 <= swipe.delta * swipe.delta
            THEN pts = <<>>
            ELSE /\ \A i \in 1..Len(pts) : StrictlyInterior(pts[i], d2)
                 /\ \A i \in 1..(Len(pts) - 1) : pts[i].num < pts[i + 1].num
                 /\ (swipe.start = <<0, 0>> /\ swipe.end = <<100, 0>> /\ swipe.delta = 25) =>
                        /\ Len(pts) = 3
                        /\ \A i \in 1..3 : pts[i].xd = 25 * i * pts[i].d /\ pts[i].yd = 0

\* ---------------------------------------------- video-stream configuration

\* Python values of the parsed arguments (floats as PyFloatValue, in tenths).
PyNone == [k |-> "None"]
PyInt(n) == [k |-> "int", n |-> n]
PyStr(s) == [k |-> "str", s |-> s]
PyBool(b) == [k |-> "bool", b |-> b]

\* An option the command line does not carry.
Absent == [k |-> "absent"]

\* The dests of add_parser_arguments, lines 55-134: argparse names the
\* attribute of `--keyframe-interval` keyframe_interval.
Options ==
    {"fps", "format", "output_file", "compression_quality", "scale_factor",
     "keyframe_interval", "profile", "max_bitrate", "buffer_size",
     "no_b_frames", "realtime_optimization", "preset"}

\* The `default=` of each argument (none given for --preset: None).
ArgumentDefaults ==
    [fps |-> PyNone,
     format |-> PyStr("h264"),
     output_file |-> PyNone,
     compression_quality |-> PyFloatValue(8),
     scale_factor |-> PyFloatValue(10),
     keyframe_interval |-> PyInt(30),
     profile |-> PyStr("baseline"),
     max_bitrate |-> PyInt(4000),
     buffer_size |-> PyInt(2000),
     no_b_frames |-> PyBool(TRUE),
     realtime_optimization |-> PyBool(TRUE),
     preset |-> PyNone]

\* The `choices=` of --profile and --preset.  (Those of --format come from
\* VideoFormat, which the command imports; the command lines below carry
\* formats it accepts.)
ArgumentChoices ==
    [profile |-> {PyStr("baseline"), PyStr("main"), PyStr("high")},
     preset |-> {PyStr("streaming"), PyStr("low-latency"), PyStr("high-quality")}]

\* The command lines of the model: for each option, Absent or the value
\* argparse converts its text to.  --no-b-frames and --realtime-optimization
\* are store_true flags.
CommandLines ==
    [fps : {Absent, PyInt(24), PyInt(30), PyInt(60)},
     format : {Absent, PyStr("mjpeg")},
     output_file : {Absent},
     compression_quality : {Absent, PyFloatValue(5), PyFloatValue(8)},
     scale_factor : {Absent, PyFloatValue(5)},
     keyframe_interval : {Absent, PyInt(15), PyInt(30), PyInt(45)},
     profile : {Absent, PyStr("baseline"), PyStr("main"), PyStr("high")},
     max_bitrate : {Absent, PyInt(4000), PyInt(5000)},
     buffer_size : {Absent, PyInt(2000), PyInt(3000)},
     no_b_frames : {Absent, PyBool(TRUE)},
     realtime_optimization : {Absent, PyBool(TRUE)},
     preset : {Absent, PyStr("streaming"), PyStr("low-latency"),
               PyStr("high-quality"), PyStr("ultra")}]

\* argparse refuses a value outside an argument's choices.
RejectedByChoices(argv) ==
    \E o \in DOMAIN ArgumentChoices :
        argv[o] # Absent /\ argv[o] \notin ArgumentChoices[o]

\* parser.parse_args: the Namespace, an attribute per dest.
parse_args(argv) ==
    [o \in Options |-> IF argv[o] = Absent THEN ArgumentDefaults[o] ELSE argv[o]]

\* The config dictionary of lines 163-174.
ConfigOfArgs(args) ==
    [fps |-> args["fps"],
     format |-> args["format"],
     compression_quality |-> args["compression_quality"],
     scale_factor |-> args["scale_factor"],
     keyframe_interval |-> args["keyframe_interval"],
     h264_profile |-> args["profile"],
     max_bitrate |-> args["max_bitrate"],
     buffer_size |-> args["buffer_size"],
     allow_frame_reordering |-> PyBool(~args["no_b_frames"].b),
     realtime_optimization |-> args["realtime_optimization"]]

PresetConfig(fps, keyframe, profile, bitrate, buffer, quality) ==
    [fps |-> PyInt(fps),
     keyframe_interval |-> PyInt(keyframe),
     h264_profile |-> PyStr(profile),
     max_bitrate |-> PyInt(bitrate),
     buffer_size |-> PyInt(buffer),
     compression_quality |-> PyFloatValue(quality),
     allow_frame_reordering |-> PyBool(FALSE),
     realtime_optimization |-> PyBool(TRUE)]

\* preset_configs of lines 178-209.
preset_configs ==
    ("streaming" :> PresetConfig(30, 30, "baseline", 4000, 2000, 8))
    @@ ("low-latency" :> PresetConfig(60, 15, "baseline", 6000, 1000, 7))
    @@ ("high-quality" :> PresetConfig(30, 60, "high", 8000, 4000, 9))

\* key.replace('_', '-') of line 215, on the keys of a preset.
DashName(key) ==
    CASE key = "fps" -> "fps"
      [] key = "keyframe_interval" -> "keyframe-interval"
      [] key = "h264_profile" -> "h264-profile"
      [] key = "max_bitrate" -> "max-bitrate"
      [] key = "buffer_size" -> "buffer-size"
      [] key = "compression_quality" -> "compression-quality"
      [] key = "allow_frame_reordering" -> "allow-frame-reordering"
      [] key = "realtime_optimization" -> "realtime-optimization"

\* hasattr(args, name).
HasAttr(args, name) == name \in DOMAIN args

\* The condition of line 215 under which the preset's value replaces
\* config[key].
PresetOverrides(args, config, key) ==
    \/ ~HasAttr(args, DashName(key))
    \/ args[DashName(key)] = config[key]

\* `hasattr(args, 'preset') and args.preset` of line 177.
PresetGiven(args) ==
    /\ HasAttr(args, "preset")
    /\ args["preset"] # PyNone
    /\ args["preset"] # PyStr("")

\* _build_stream_config, lines 161-218.
build_stream_config(args) ==
    LET config == ConfigOfArgs(args) IN
    IF PresetGiven(args) /\ args["preset"].s \in DOMAIN preset_configs
    THEN LET preset == preset_configs[args["preset"].s] IN
         [key \in DOMAIN config |->
            IF key \in DOMAIN preset /\ PresetOverrides(args, config, key)
            THEN preset[key]
            ELSE config[key]]
    ELSE config

VideoInit ==
    /\ StreamInit
    /\ swipe = SwipeIdle
    /\ video \in {[pc |-> "argv", argv |-> argv] : argv \in CommandLines}

\* parse_args accepts the command line.
ParseArgs ==
    /\ video.pc = "argv"
    /\ ~RejectedByChoices(video.argv)
    /\ video' = [pc |-> "parsed", argv |-> video.argv, args |-> parse_args(video.argv)]
    /\ UNCHANGED <<streamVars, swipe>>

\* parse_args refuses the command line and the process exits.
ParseRejects ==
    /\ video.pc = "argv"
    /\ RejectedByChoices(video.argv)
    /\ video' = [pc |-> "rejected", argv |-> video.argv]
    /\ UNCHANGED <<streamVars, swipe>>

\* run_with_client builds the configuration (line 138).
BuildStreamConfig ==
    /\ video.pc = "parsed"
    /\ video' = [pc |-> "built", argv |-> video.argv, args |-> video.args,
                 config |-> build_stream_config(video.args)]
    /\ UNCHANGED <<streamVars, swipe>>

VideoNext ==
    \/ ParseArgs
    \/ ParseRejects
    \/ BuildStreamConfig

VideoSpec == VideoInit /\ [][VideoNext]_vars

\* The option that sets a config key.
OptionOf ==
    [fps |-> "fps",
     format |-> "format",
     compression_quality |-> "compression_quality",
     scale_factor |-> "scale_factor",
     keyframe_interval |-> "keyframe_interval",
     h264_profile |-> "profile",
     max_bitrate |-> "max_bitrate",
     buffer_size |-> "buffer_size",
     allow_frame_reordering |-> "no_b_frames",
     realtime_optimization |-> "realtime_optimization"]

\* The user put the key's option on the command line.
ExplicitlySet(key) == video.argv[OptionOf[key]] # Absent

\* The value the arguments alone give a config key.
ArgumentValue(args, key) == ConfigOfArgs(args)[key]

\* A known preset was given and the configuration is built.
BuiltWithPreset ==
    /\ video.pc = "built"
    /\ video.args["preset"] \in ArgumentChoices["preset"]

\* With a known preset, a key takes the preset's value only if the user did
\* not explicitly set it: a key the user set keeps the user's value.
C11_PresetOnlyIfNotSet ==
    BuiltWithPreset =>
        \A key \in DOMAIN preset_configs[video.args["preset"].s] :
            ExplicitlySet(key) =>
                video.config[key] = ArgumentValue(video.args, key)

\* With a known preset, a key the user set to a value different from both the
\* default and the preset keeps the user's value.
C11_DistinctUserValueKept ==
    BuiltWithPreset =>
        LET preset == preset_configs[video.args["preset"].s] IN
        \A key \in DOMAIN preset :
            (/\ ExplicitlySet(key)
             /\ ArgumentValue(video.args, key) # ArgumentValue(ArgumentDefaults, key)
             /\ ArgumentValue(video.args, key) # preset[key]) =>
                video.config[key] = ArgumentValue(video.args, key)

\* With no preset, every key of the config has its argument's value.
C11_NoPresetUnchanged ==
    (video.pc = "built" /\ video.args["preset"] = PyNone) =>
        /\ DOMAIN video.config = DOMAIN OptionOf
        /\ \A key \in DOMAIN video.config :
              video.config[key] =
                  IF key = "allow_frame_reordering"
                  THEN PyBool(~video.args["no_b_frames"].b)
                  ELSE video.args[OptionOf[key]]

\* C11: preset merging in _build_stream_config: with a known preset a key
\* takes the preset's value only if the user did not explicitly set it, and
\* every key the user set to a value different from both the default and the
\* preset keeps the user's value; with no preset the config equals the
\* argument values unchanged.
C11_PresetMerging ==
    /\ C11_PresetOnlyIfNotSet
    /\ C11_DistinctUserValueKept
    /\ C11_NoPresetUnchanged

====
